---- MODULE Spec2Model ----
(***************************************************************************)
(* A model of lambda.py: the AST of the untyped lambda calculus with its   *)
(* rendering and one-step evaluation, the backtracking parser combinators, *)
(* the grammar built from them, and the driver loop of interpret.          *)
(*                                                                         *)
(* A Python str is a sequence of one-character strings; a position is a    *)
(* zero-based offset, so text[pos] of the source is text[pos + 1] here.    *)
(* Every Python value carries its class in the field "type".               *)
(***************************************************************************)
EXTENDS Integers, Sequences, FiniteSets, TLC

VARIABLES
  text,    \* the program text given to interpret or to a parser
  pc,      \* where the operation under way stands
  result,  \* the value the operation holds or has returned
  steps,   \* the iterations of the driver loop made so far
  node,    \* the AST node eval is called on
  env,     \* the environment eval is called with
  calls,   \* the number of eval calls the call of eval made
  parser,  \* the parser called
  start,   \* the position the parser is called at
  new_pos  \* the position the parser returned

vars == <<text, pc, result, steps, node, env, calls, parser, start, new_pos>>

(***************************************************************************)
(* Bounds of the model.                                                    *)
(***************************************************************************)
\* the longest text enumerated over Alphabet
MaxLen == 3
\* the largest number of nodes of an enumerated AST
MaxSize == 5
\* the largest number of nodes of an AST bound in an enumerated environment
MaxEnvSize == 1
\* the number of iterations of the driver loop that are followed
MaxSteps == 5

(***************************************************************************)
(* Characters.                                                             *)
(***************************************************************************)
PUNCTUATIONS == {"\\", ".", "(", ")"}

\* the characters blanks_parser skips
BlankChars == {" ", "\t", "\n"}

\* the characters of the model whose Unicode general category starts with L
Letters == {"a", "b", "c", "f", "x", "y"}

\* the characters texts are enumerated over; "1" is neither a letter, a
\* blank nor a punctuation
Alphabet == {"\\", ".", "(", ")", " ", "x", "1"}

\* the names enumerated ASTs are built from
Names == {<<"x">>, <<"y">>}

(***************************************************************************)
(* class Error.  The message is kept as the sequence of its lines: the     *)
(* source joins them with "\n".                                            *)
(***************************************************************************)
FormatMessage(pos, message) == "lambda:" \o ToString(pos) \o ": " \o message

Error(pos, message) ==
  [type |-> "Error", message |-> <<FormatMessage(pos, message)>>]

append_message(self, pos, message) ==
  [type |-> "Error",
   message |-> Append(self.message, FormatMessage(pos, message))]

IsError(value) == value.type = "Error"

(***************************************************************************)
(* The AST classes.                                                        *)
(***************************************************************************)
Variable(name) == [type |-> "Variable", name |-> name]

LambdaAbstraction(argument, body) ==
  [type |-> "LambdaAbstraction", argument |-> argument, body |-> body]

FunctionApplication(left_expression, right_expression) ==
  [type |-> "FunctionApplication",
   left_expression |-> left_expression,
   right_expression |-> right_expression]

_bracketed(string) == <<"(">> \o string \o <<")">>

RECURSIVE Str(_)

VariableStr(self) == self.name

\* LambdaAbstraction.__str__ without the brackets
LambdaAbstractionStrBare(self) ==
  <<"\\">> \o self.argument \o <<".">> \o Str(self.body)

LambdaAbstractionStr(self) ==
  _bracketed(<<"\\">> \o self.argument \o <<".">> \o Str(self.body))

\* FunctionApplication.__str__ without the brackets
FunctionApplicationStrFlat(self) ==
  Str(self.left_expression) \o <<" ">> \o Str(self.right_expression)

FunctionApplicationStr(self) ==
  _bracketed(Str(self.left_expression) \o <<" ">>
             \o Str(self.right_expression))

\* str(node): the dispatch on the node's class
Str(self) ==
  CASE self.type = "Variable" -> VariableStr(self)
    [] self.type = "LambdaAbstraction" -> LambdaAbstractionStr(self)
    [] self.type = "FunctionApplication" -> FunctionApplicationStr(self)

(***************************************************************************)
(* eval.  An environment is a function from names to nodes.  EvalTrace     *)
(* returns the node eval returns and the number of eval calls made.        *)
(***************************************************************************)
EmptyEnv == [k \in {} |-> k]

RECURSIVE EvalTrace(_, _)

\* Variable.eval evaluating the binding it returns
VariableEvalEager(self, e) ==
  IF self.name \in DOMAIN e
    THEN LET bound == EvalTrace(e[self.name], EmptyEnv)
         IN  [result |-> bound.result, calls |-> 1 + bound.calls]
    ELSE [result |-> self, calls |-> 1]

VariableEval(self, e) ==
  IF self.name \in DOMAIN e
    THEN [result |-> e[self.name], calls |-> 1]
    ELSE [result |-> self, calls |-> 1]

\* LambdaAbstraction.eval without the del of the bound name
LambdaAbstractionEvalLeaky(self, e) ==
  LET body == EvalTrace(self.body, e)
  IN  [result |-> LambdaAbstraction(self.argument, body.result),
       calls |-> 1 + body.calls]

LambdaAbstractionEval(self, e) ==
  LET new_env == [k \in (DOMAIN e) \ {self.argument} |-> e[k]]
      body == EvalTrace(self.body, new_env)
  IN  [result |-> LambdaAbstraction(self.argument, body.result),
       calls |-> 1 + body.calls]

FunctionApplicationEval(self, e) ==
  IF self.left_expression.type = "LambdaAbstraction"
    THEN LET argument == self.left_expression.argument
             new_env == [k \in (DOMAIN e) \cup {argument} |->
                           IF k = argument THEN self.right_expression
                                           ELSE e[k]]
             body == EvalTrace(self.left_expression.body, new_env)
         IN  [result |-> body.result, calls |-> 1 + body.calls]
    ELSE LET l == EvalTrace(self.left_expression, e)
             r == EvalTrace(self.right_expression, e)
         IN  [result |-> FunctionApplication(l.result, r.result),
              calls |-> 1 + l.calls + r.calls]

\* node.eval(env): the dispatch on the node's class
EvalTrace(self, e) ==
  CASE self.type = "Variable" -> VariableEval(self, e)
    [] self.type = "LambdaAbstraction" -> LambdaAbstractionEval(self, e)
    [] self.type = "FunctionApplication" -> FunctionApplicationEval(self, e)

Eval(self, e) == EvalTrace(self, e).result

(***************************************************************************)
(* Parsers.  A parser (a closure of the source) is a record naming the     *)
(* function that built it and the arguments that function captured;        *)
(* Run(parser, t, pos) calls it.  A parser returns the pair                *)
(* [result, pos].  Python's None, str and list results are tagged records. *)
(***************************************************************************)
None == [type |-> "None"]

PyStr(value) == [type |-> "str", value |-> value]

List(value) == [type |-> "list", value |-> value]

Ret(value, pos) == [result |-> value, pos |-> pos]

\* the functions and methods that build parsers
choice(parsers) == [p |-> "choice", parsers |-> parsers]

sequence(parsers) == [p |-> "sequence", parsers |-> parsers]

many(inner) == [p |-> "many", parser |-> inner]

recursed(parser_generator) ==
  [p |-> "recursed", parser_generator |-> parser_generator]

top_expression == [p |-> "top_expression"]

expression == [p |-> "expression"]

term == [p |-> "term"]

bracketed(inner) == [p |-> "bracketed", parser |-> inner]

variable == [p |-> "variable"]

lambda_abstraction == [p |-> "lambda_abstraction"]

function_applications == [p |-> "function_applications"]

identifier == [p |-> "identifier"]

punctuation(token) == [p |-> "punctuation", punctuation |-> token]

blanks == [p |-> "blanks"]

letter == [p |-> "letter"]

RECURSIVE Run(_, _, _, _)

RECURSIVE choice_parser(_, _, _, _)

\* the for loop of choice_parser over the parsers still to try
choice_parser(parsers, t, old_pos, memo) ==
  IF parsers = << >>
    THEN Ret(Error(old_pos, "A choice parser failed."), old_pos)
    ELSE LET r == Run(Head(parsers), t, old_pos, memo)
         IN  IF r.result.type # "Error" THEN r
             ELSE choice_parser(Tail(parsers), t, old_pos, memo)

RECURSIVE SequenceLoop(_, _, _, _, _, _)

\* sequence_parser returning the position reached when a parser fails
SequenceLoopNoRewind(parsers, results, pos, t, old_pos, memo) ==
  IF parsers = << >>
    THEN Ret(List(results), pos)
    ELSE LET r == Run(Head(parsers), t, pos, memo)
         IN  IF r.result.type = "Error" THEN Ret(r.result, pos)
             ELSE SequenceLoop(Tail(parsers), Append(results, r.result),
                               r.pos, t, old_pos, memo)

\* the for loop of sequence_parser over the parsers still to run
SequenceLoop(parsers, results, pos, t, old_pos, memo) ==
  IF parsers = << >>
    THEN Ret(List(results), pos)
    ELSE LET r == Run(Head(parsers), t, pos, memo)
         IN  IF r.result.type = "Error" THEN Ret(r.result, old_pos)
             ELSE SequenceLoop(Tail(parsers), Append(results, r.result),
                               r.pos, t, old_pos, memo)

sequence_parser(parsers, t, old_pos, memo) ==
  SequenceLoop(parsers, << >>, old_pos, t, old_pos, memo)

RECURSIVE ManyLoop(_, _, _, _, _)

\* the while loop of many_parser
ManyLoop(inner, results, pos, t, memo) ==
  LET r == Run(inner, t, pos, memo)
  IN  IF r.result.type = "Error" THEN Ret(List(results), pos)
      ELSE ManyLoop(inner, Append(results, r.result), r.pos, t, memo)

many_parser(inner, t, old_pos, memo) ==
  ManyLoop(inner, << >>, old_pos, t, memo)

\* the parser generators recursed is used with
Generate(parser_generator) ==
  CASE parser_generator = "expression" -> expression

recursed_parser(parser_generator, t, old_pos, memo) ==
  Run(Generate(parser_generator), t, old_pos, memo)

RECURSIVE BlanksLoop(_, _)

\* the while loop of blanks_parser
BlanksLoop(t, pos) ==
  IF pos < Len(t) /\ t[pos + 1] \in BlankChars
    THEN BlanksLoop(t, pos + 1)
    ELSE pos

blanks_parser(t, old_pos) == Ret(None, BlanksLoop(t, old_pos))

letter_parser(t, old_pos) ==
  IF old_pos < Len(t) /\ t[old_pos + 1] \in Letters
    THEN Ret(PyStr(<<t[old_pos + 1]>>), old_pos + 1)
    ELSE Ret(Error(old_pos, "A letter is expected."), old_pos)

punctuation_parser(token, t, old_pos) ==
  LET pos == blanks_parser(t, old_pos).pos
  IN  IF pos < Len(t) /\ t[pos + 1] = token
        THEN Ret(PyStr(<<token>>), pos + 1)
        ELSE Ret(Error(old_pos,
                       "A punctuation, \"" \o token \o "\" is expected."),
                 old_pos)

RECURSIVE Join(_)

\* "".join(strings)
Join(strings) ==
  IF strings = << >> THEN << >>
  ELSE Head(strings).value \o Join(Tail(strings))

identifier_parser(t, old_pos, memo) ==
  LET pos == blanks_parser(t, old_pos).pos
      r == Run(sequence(<<letter, many(letter)>>), t, pos, memo)
  IN  IF r.result.type = "Error"
        THEN Ret(Error(old_pos, "An identifier is expected."), old_pos)
        ELSE Ret(PyStr(r.result.value[1].value
                       \o Join(r.result.value[2].value)),
                 r.pos)

variable_parser(t, old_pos, memo) ==
  LET r == Run(identifier, t, old_pos, memo)
  IN  IF r.result.type = "Error"
        THEN Ret(append_message(r.result, old_pos, "A variable is expected."),
                 old_pos)
        ELSE Ret(Variable(r.result.value), r.pos)

lambda_abstraction_parser(t, old_pos, memo) ==
  LET r == Run(sequence(<<punctuation("\\"), identifier, punctuation(".")>>),
               t, old_pos, memo)
  IN  IF r.result.type = "Error"
        THEN Ret(append_message(r.result, old_pos,
                                "A lambda abstraction is expected."),
                 old_pos)
        ELSE LET b == Run(expression, t, r.pos, memo)
             IN  IF b.result.type = "Error"
                   THEN Ret(append_message(b.result, old_pos,
                                           "An expression is expected."),
                            old_pos)
                   ELSE Ret(LambdaAbstraction(r.result.value[2].value,
                                              b.result),
                            b.pos)

RECURSIVE ReduceRight(_, _)

\* the fold of the elements to the right
ReduceRight(x, ys) ==
  IF ys = << >> THEN x
  ELSE FunctionApplication(x, ReduceRight(Head(ys), Tail(ys)))

RECURSIVE Reduce(_, _)

\* functools.reduce(lambda x, y: FunctionApplication(x, y), [x, *ys])
Reduce(x, ys) ==
  IF ys = << >> THEN x
  ELSE Reduce(FunctionApplication(x, Head(ys)), Tail(ys))

\* the parser of one element of an application
elem == choice(<<variable, lambda_abstraction, bracketed(expression)>>)

function_applications_parser(t, old_pos, memo) ==
  LET r == Run(sequence(<<elem, elem, many(elem)>>), t, old_pos, memo)
  IN  IF r.result.type = "Error"
        THEN Ret(append_message(r.result, old_pos,
                                "Function applications are expected."),
                 old_pos)
        ELSE Ret(Reduce(r.result.value[1],
                        <<r.result.value[2]>> \o r.result.value[3].value),
                 r.pos)

bracketed_parser(inner, t, old_pos, memo) ==
  LET r == Run(sequence(<<punctuation("("), inner, punctuation(")")>>),
               t, old_pos, memo)
  IN  IF r.result.type = "Error" THEN Ret(r.result, old_pos)
      ELSE Ret(r.result.value[2], r.pos)

term_parser(t, old_pos, memo) ==
  LET r == Run(choice(<<function_applications, variable,
                        lambda_abstraction>>), t, old_pos, memo)
  IN  IF r.result.type = "Error"
        THEN Ret(append_message(r.result, old_pos, "A term is expected."),
                 old_pos)
        ELSE r

\* expression_parser chaining its message to the failure it got, as
\* term_parser does
expression_parser_chained(t, old_pos, memo) ==
  LET r == Run(choice(<<term, bracketed(recursed("expression"))>>),
               t, old_pos, memo)
  IN  IF r.result.type = "Error"
        THEN Ret(append_message(r.result, old_pos,
                                "An expression is expected."),
                 old_pos)
        ELSE r

expression_parser(t, old_pos, memo) ==
  LET r == Run(choice(<<term, bracketed(recursed("expression"))>>),
               t, old_pos, memo)
  IN  IF r.result.type = "Error"
        THEN Ret(Error(old_pos, "An expression is expected."), old_pos)
        ELSE r

top_expression_parser(t, old_pos, memo) ==
  LET r == Run(sequence(<<expression, blanks>>), t, old_pos, memo)
  IN  IF r.result.type = "Error" THEN Ret(r.result, old_pos)
      ELSE IF r.pos # Len(t)
        THEN Ret(Error(old_pos,
                       "Extra characters are detected at position, "
                         \o ToString(r.pos) \o "."),
                 old_pos)
        ELSE Ret(r.result.value[1], r.pos)

\* parser(pos): the call of a closure.  A parser is a pure function of the
\* text and the position, so the call of expression's closure is read from
\* memo, the table of what expression_parser returns at each position.
Run(q, t, pos, memo) ==
  CASE q.p = "choice" -> choice_parser(q.parsers, t, pos, memo)
    [] q.p = "sequence" -> sequence_parser(q.parsers, t, pos, memo)
    [] q.p = "many" -> many_parser(q.parser, t, pos, memo)
    [] q.p = "recursed" -> recursed_parser(q.parser_generator, t, pos, memo)
    [] q.p = "top_expression" -> top_expression_parser(t, pos, memo)
    [] q.p = "expression" -> memo[Len(t) - pos + 1]
    [] q.p = "term" -> term_parser(t, pos, memo)
    [] q.p = "bracketed" -> bracketed_parser(q.parser, t, pos, memo)
    [] q.p = "variable" -> variable_parser(t, pos, memo)
    [] q.p = "lambda_abstraction" -> lambda_abstraction_parser(t, pos, memo)
    [] q.p = "function_applications" ->
         function_applications_parser(t, pos, memo)
    [] q.p = "identifier" -> identifier_parser(t, pos, memo)
    [] q.p = "punctuation" -> punctuation_parser(q.punctuation, t, pos)
    [] q.p = "blanks" -> blanks_parser(t, pos)
    [] q.p = "letter" -> letter_parser(t, pos)

RECURSIVE ExpressionFrom(_, _)

\* what expression_parser returns at each of the positions from..Len(t),
\* the last position first.  Within expression_parser(from) the closure of
\* expression is only called behind a "(" or a "\", identifier, ".", at a
\* position after from.
ExpressionFrom(t, from) ==
  IF from > Len(t) THEN << >>
  ELSE LET later == ExpressionFrom(t, from + 1)
       IN  Append(later, expression_parser(t, from, later))

\* parser(pos), for a parser of the grammar and a position of the text
Call(q, t, pos) == Run(q, t, pos, ExpressionFrom(t, 0))

\* Parser.parse
Parse(t) == Call(top_expression, t, 0).result

(***************************************************************************)
(* interpret: the loop condition and the loop as a function.               *)
(***************************************************************************)
\* a loop condition that compares the classes of the two nodes only
LoopConditionShallow(r) == r.type # Eval(r, EmptyEnv).type

\* a loop condition that looks for a redex at the root only
LoopConditionRoot(r) ==
  /\ r.type = "FunctionApplication"
  /\ r.left_expression.type = "LambdaAbstraction"

\* str(result) != str(result.eval({}))
LoopCondition(r) == Str(r) # Str(Eval(r, EmptyEnv))

RECURSIVE Drive(_, _)

\* the while loop of interpret, followed for at most fuel iterations
Drive(r, fuel) ==
  IF LoopCondition(r) /\ fuel > 0 THEN Drive(Eval(r, EmptyEnv), fuel - 1)
  ELSE r

(***************************************************************************)
(* The inputs.                                                             *)
(***************************************************************************)
RECURSIVE TextsOfLen(_)

TextsOfLen(n) ==
  IF n = 0 THEN {<< >>}
  ELSE {Append(t, c) : t \in TextsOfLen(n - 1), c \in Alphabet}

\* every text over Alphabet of at most MaxLen characters
RawTexts == UNION {TextsOfLen(n) : n \in 0..MaxLen}

RECURSIVE TermsOfSize(_)

TermsOfSize(n) ==
  IF n = 1 THEN {Variable(x) : x \in Names}
  ELSE {LambdaAbstraction(x, b) : x \in Names, b \in TermsOfSize(n - 1)}
       \cup UNION {{FunctionApplication(l, r) :
                      l \in TermsOfSize(i), r \in TermsOfSize(n - 1 - i)} :
                   i \in 1..(n - 2)}

\* every AST over Names of at most MaxSize nodes
Terms == UNION {TermsOfSize(n) : n \in 1..MaxSize}

\* \x x
TextMissingDot == <<"\\", "x", " ", "x">>

\* (\x.\x.x) a
TextShadow ==
  <<"(", "\\", "x", ".", "\\", "x", ".", "x", ")", " ", "a">>

\* f a b c
TextFabc == <<"f", " ", "a", " ", "b", " ", "c">>

\* ((f a) b) c
TextFabcNested ==
  <<"(", "(", "f", " ", "a", ")", " ", "b", ")", " ", "c">>

\* (\x.x x) (\x.x x)
TextOmega ==
  <<"(", "\\", "x", ".", "x", " ", "x", ")", " ",
    "(", "\\", "x", ".", "x", " ", "x", ")">>

\* (\x.(\y.y) x) a
TextNested ==
  <<"(", "\\", "x", ".", "(", "\\", "y", ".", "y", ")", " ", "x", ")",
    " ", "a">>

\* (\x.\y.x) a b
TextConst ==
  <<"(", "\\", "x", ".", "\\", "y", ".", "x", ")", " ", "a", " ", "b">>

\* (\x.x x x) (\x.x x x)
TextGrowing ==
  <<"(", "\\", "x", ".", "x", " ", "x", " ", "x", ")", " ",
    "(", "\\", "x", ".", "x", " ", "x", " ", "x", ")">>

\* (\x.x) \y.y
TextIdentity ==
  <<"(", "\\", "x", ".", "x", ")", " ", "\\", "y", ".", "y">>

\* f \x.x y
TextLastAbstraction == <<"f", " ", "\\", "x", ".", "x", " ", "y">>

\* the programs of the specification's examples, and a few more
SampleTexts ==
  {TextMissingDot, TextShadow, TextFabc, TextFabcNested, TextOmega,
   TextNested, TextConst, TextGrowing, TextIdentity, TextLastAbstraction}

SampleTerms ==
  {Parse(t) : t \in {s \in SampleTexts : ~IsError(Parse(s))}}

\* the texts interpret is given
Texts == RawTexts \cup {Str(t) : t \in Terms} \cup SampleTexts

\* every environment binding some of Names to ASTs of at most MaxEnvSize nodes
Envs ==
  UNION {[D -> UNION {TermsOfSize(n) : n \in 1..MaxEnvSize}] :
         D \in SUBSET Names}

\* every parser the grammar builds
GrammarParsers ==
  {top_expression, expression, term, variable, lambda_abstraction,
   function_applications, identifier, blanks, letter,
   bracketed(expression), bracketed(recursed("expression")),
   recursed("expression"), elem, many(elem), many(letter),
   sequence(<<expression, blanks>>),
   choice(<<term, bracketed(recursed("expression"))>>),
   choice(<<function_applications, variable, lambda_abstraction>>),
   sequence(<<punctuation("("), expression, punctuation(")")>>),
   sequence(<<punctuation("("), recursed("expression"), punctuation(")")>>),
   sequence(<<punctuation("\\"), identifier, punctuation(".")>>),
   sequence(<<elem, elem, many(elem)>>),
   sequence(<<letter, many(letter)>>)}
  \cup {punctuation(c) : c \in PUNCTUATIONS}

(***************************************************************************)
(* interpret(text).                                                        *)
(***************************************************************************)
Init ==
  /\ text \in Texts
  /\ pc = "parse"
  /\ result = None
  /\ steps = 0
  /\ node = None /\ env = EmptyEnv /\ calls = 0
  /\ parser = None /\ start = 0 /\ new_pos = 0

\* result = Parser().parse(text), and the return of an Error
ParseText ==
  /\ pc = "parse"
  /\ result' = Parse(text)
  /\ pc' = IF IsError(result') THEN "done" ELSE "loop"
  /\ UNCHANGED <<text, steps, node, env, calls, parser, start, new_pos>>

\* one iteration of the while loop
LoopStep ==
  /\ pc = "loop"
  /\ steps < MaxSteps
  /\ LoopCondition(result)
  /\ result' = Eval(result, EmptyEnv)
  /\ steps' = steps + 1
  /\ UNCHANGED <<text, pc, node, env, calls, parser, start, new_pos>>

\* the loop's exit and the return of result
Return ==
  /\ pc = "loop"
  /\ ~LoopCondition(result)
  /\ pc' = "done"
  /\ UNCHANGED <<text, result, steps, node, env, calls, parser, start, new_pos>>

Next == ParseText \/ LoopStep \/ Return

Spec == Init /\ [][Next]_vars

(***************************************************************************)
(* node.eval(env) on its own.                                              *)
(***************************************************************************)
InitEval ==
  /\ node \in Terms \cup SampleTerms
  /\ env \in Envs
  /\ pc = "call"
  /\ result = None
  /\ calls = 0
  /\ text = << >> /\ steps = 0
  /\ parser = None /\ start = 0 /\ new_pos = 0

CallEval ==
  /\ pc = "call"
  /\ \E returned \in {EvalTrace(node, env)} :
       /\ result' = returned.result
       /\ calls' = returned.calls
  /\ pc' = "returned"
  /\ UNCHANGED <<text, steps, node, env, parser, start, new_pos>>

NextEval == CallEval

SpecEval == InitEval /\ [][NextEval]_vars

(***************************************************************************)
(* parser(start) on its own, for every parser of the grammar.              *)
(***************************************************************************)
InitRule ==
  /\ text \in RawTexts
  /\ start \in 0..Len(text)
  /\ parser \in GrammarParsers
  /\ pc = "call"
  /\ result = None
  /\ new_pos = 0
  /\ steps = 0
  /\ node = None /\ env = EmptyEnv /\ calls = 0

CallParser ==
  /\ pc = "call"
  /\ \E returned \in {Call(parser, text, start)} :
       /\ result' = returned.result
       /\ new_pos' = returned.pos
  /\ pc' = "returned"
  /\ UNCHANGED <<text, steps, node, env, calls, parser, start>>

NextRule == CallParser

SpecRule == InitRule /\ [][NextRule]_vars

(***************************************************************************)
(* What the properties speak of.                                           *)
(***************************************************************************)
RECURSIVE Size(_)

\* the number of nodes of an AST
Size(n) ==
  CASE n.type = "Variable" -> 1
    [] n.type = "LambdaAbstraction" -> 1 + Size(n.body)
    [] n.type = "FunctionApplication" ->
         1 + Size(n.left_expression) + Size(n.right_expression)

RECURSIVE FreeVars(_)

\* the names that occur free in an AST
FreeVars(n) ==
  CASE n.type = "Variable" -> {n.name}
    [] n.type = "LambdaAbstraction" -> FreeVars(n.body) \ {n.argument}
    [] n.type = "FunctionApplication" ->
         FreeVars(n.left_expression) \cup FreeVars(n.right_expression)

\* an application whose function position is an abstraction
IsRedex(n) ==
  /\ n.type = "FunctionApplication"
  /\ n.left_expression.type = "LambdaAbstraction"

RECURSIVE OutermostRedexes(_)

\* the redexes of an AST that lie within no other redex
OutermostRedexes(n) ==
  CASE n.type = "Variable" -> {}
    [] n.type = "LambdaAbstraction" -> OutermostRedexes(n.body)
    [] n.type = "FunctionApplication" ->
         IF IsRedex(n) THEN {n}
         ELSE OutermostRedexes(n.left_expression)
              \cup OutermostRedexes(n.right_expression)

\* an AST some sub-term of which is a redex
HasRedex(n) == OutermostRedexes(n) # {}

RECURSIVE LeftNest(_)

\* (((a1 a2) a3) ... an), peeling the last element off
LeftNest(as) ==
  IF Len(as) = 1 THEN as[1]
  ELSE FunctionApplication(LeftNest(SubSeq(as, 1, Len(as) - 1)),
                           as[Len(as)])

\* interpret has returned an AST
Returned == pc = "done" /\ ~IsError(result)

\* the message texts of the source
MessageTexts ==
  {"A choice parser failed.", "A letter is expected.",
   "An identifier is expected.", "A variable is expected.",
   "A lambda abstraction is expected.", "An expression is expected.",
   "Function applications are expected.", "A term is expected."}
  \cup {"A punctuation, \"" \o c \o "\" is expected." : c \in PUNCTUATIONS}
  \cup {"Extra characters are detected at position, " \o ToString(n) \o "." :
        n \in 0..Len(text)}

\* some line of the Error's message is annotated with position n
ReportsPosition(error, n) ==
  \E i \in 1..Len(error.message) :
    \E m \in MessageTexts : error.message[i] = FormatMessage(n, m)

(***************************************************************************)
(* C1, as stated: whenever interpret returns an AST, that AST is a normal  *)
(* form: no sub-term of it is an application of an abstraction.            *)
(***************************************************************************)
C1_ReturnedIsNormalForm == Returned => ~HasRedex(result)

(***************************************************************************)
(* C1, amended: whenever interpret returns an AST, every redex of it that  *)
(* lies within no other redex is one that a call of eval({}) returns       *)
(* unchanged; an AST with no such redex is a normal form.                  *)
(***************************************************************************)
C1_ReturnedRedexesReproduce ==
  Returned => \A r \in OutermostRedexes(result) : Eval(r, EmptyEnv) = r

\* interpret has returned (\x.x x) (\x.x x), which is a redex
C1_Witness == Returned /\ text = TextOmega /\ HasRedex(result)

(***************************************************************************)
(* C2: eval({}) of the application of Abstraction{x, B} to A substitutes A *)
(* for x throughout B: x is free in what is returned only if x is free in  *)
(* A.                                                                      *)
(***************************************************************************)
C2_SubstitutesBoundName ==
  (pc = "returned" /\ DOMAIN env = {} /\ IsRedex(node))
    => (node.left_expression.argument \in FreeVars(result)
          => node.left_expression.argument
               \in FreeVars(node.right_expression))

(***************************************************************************)
(* C3, as stated: parsing \x x fails and the Error that Parser.parse       *)
(* returns reports position 3, where the "." was expected, in its message. *)
(***************************************************************************)
C3_ReportsDotPosition ==
  (pc = "done" /\ text = TextMissingDot)
    => IsError(result) /\ ReportsPosition(result, 3)

(***************************************************************************)
(* C3, amended: parsing \x x fails and the Error that Parser.parse returns *)
(* is the one line "lambda:0: An expression is expected.": it reports      *)
(* position 0, where the expression starts.                                *)
(***************************************************************************)
C3_ReportsExpressionStart ==
  (pc = "done" /\ text = TextMissingDot)
    => /\ IsError(result)
       /\ result.message = <<"lambda:0: An expression is expected.">>
       /\ ReportsPosition(result, 0)

\* interpret has returned on \x x
C3_Witness == pc = "done" /\ text = TextMissingDot /\ IsError(result)

(***************************************************************************)
(* C4: for a text that parses to an AST a, str(a) parses to an AST that    *)
(* renders as a does, and once interpret has returned on the text,         *)
(* interpret returns on str(a) too, with a result that renders the same.   *)
(***************************************************************************)
C4_RoundTrip ==
  (pc \in {"loop", "done"} /\ ~IsError(Parse(text)))
    => LET a == Parse(text)
           b == Parse(Str(a))
       IN  /\ ~IsError(b)
           /\ Str(b) = Str(a)
           /\ pc = "done" =>
                /\ ~LoopCondition(Drive(b, steps))
                /\ Str(Drive(b, steps)) = Str(result)

\* interpret has returned, after some iterations, on a text that is not the
\* rendering of its AST
C4_Witness ==
  /\ Returned
  /\ steps > 0
  /\ Str(Parse(text)) # text

(***************************************************************************)
(* C5: once interpret has returned an AST, one more call of eval({})       *)
(* returns an AST that renders as the returned one does.                   *)
(***************************************************************************)
C5_FixpointIdempotent ==
  Returned => Str(Eval(result, EmptyEnv)) = Str(result)

\* interpret has returned after some iterations of the loop
C5_Witness == Returned /\ steps > 0 /\ result # Parse(text)

(***************************************************************************)
(* C6: wherever function_applications succeeds, it has matched a run of    *)
(* two or more elements and returns their left-nested application          *)
(* (((a1 a2) a3) ... an); f a b c parses to the AST of ((f a) b) c, which  *)
(* renders as (((f a) b) c).                                               *)
(***************************************************************************)
C6_LeftAssociative ==
  (pc \in {"loop", "done"} /\ steps = 0)
    => /\ \E memo \in {ExpressionFrom(text, 0)} :
            \A p \in 0..Len(text) :
              \E got \in {Run(function_applications, text, p, memo)} :
                ~IsError(got.result)
                  => \E run \in {Run(many(elem), text, p, memo)} :
                       /\ Len(run.result.value) >= 2
                       /\ got.result = LeftNest(run.result.value)
                       /\ got.pos = run.pos
       /\ text = TextFabc
            => /\ result = Parse(TextFabcNested)
               /\ result =
                    FunctionApplication(
                      FunctionApplication(
                        FunctionApplication(Variable(<<"f">>),
                                            Variable(<<"a">>)),
                        Variable(<<"b">>)),
                      Variable(<<"c">>))
               /\ Str(result) =
                    <<"(", "(", "(", "f", " ", "a", ")", " ", "b", ")", " ",
                      "c", ")">>

\* f a b c has been parsed
C6_Witness ==
  /\ pc = "loop"
  /\ steps = 0
  /\ text = TextFabc
  /\ result.type = "FunctionApplication"

(***************************************************************************)
(* C7: a parser of the grammar that returns an Error returns the position  *)
(* it was called at; many and blanks never return an Error and return a    *)
(* position that is not before the one they were called at.                *)
(***************************************************************************)
C7_NoPartialConsumption ==
  pc = "returned"
    => /\ IsError(result) => new_pos = start
       /\ parser.p \in {"many", "blanks"}
            => ~IsError(result) /\ new_pos >= start

\* a sequence has failed after its first parser consumed characters
C7_Witness ==
  /\ pc = "returned"
  /\ parser.p = "sequence"
  /\ IsError(result)
  /\ ~IsError(Call(parser.parsers[1], text, start).result)
  /\ Call(parser.parsers[1], text, start).pos > start

(***************************************************************************)
(* C8: eval(env) of Abstraction{x, B} returns Abstraction{x, B'} with B'   *)
(* what B evaluates to under env without its binding of x, so that what is *)
(* returned does not depend on what env binds x to; (\x.\x.x) a evaluates  *)
(* to an AST that renders as (\x.x).                                       *)
(***************************************************************************)
C8_Shadowing ==
  pc = "returned"
    => /\ node.type = "LambdaAbstraction"
            => /\ result.type = "LambdaAbstraction"
               /\ result.argument = node.argument
               /\ result.body =
                    Eval(node.body,
                         [k \in (DOMAIN env) \ {node.argument} |-> env[k]])
               /\ \A other \in Envs :
                    (\A k \in Names \ {node.argument} :
                       /\ k \in DOMAIN other <=> k \in DOMAIN env
                       /\ k \in DOMAIN env => other[k] = env[k])
                      => Eval(node, other) = result
       /\ (node = Parse(TextShadow) /\ DOMAIN env = {})
            => Str(result) = <<"(", "\\", "x", ".", "x", ")">>

\* an abstraction whose bound name is free in its body has been evaluated
\* under an environment that binds the name
C8_Witness ==
  /\ pc = "returned"
  /\ node.type = "LambdaAbstraction"
  /\ node.argument \in DOMAIN env
  /\ node.argument \in FreeVars(node.body)

(***************************************************************************)
(* C9: a call of eval makes at most as many calls of eval as the node has  *)
(* nodes; eval of a bound Variable returns the binding as it is, with no   *)
(* further call.                                                           *)
(***************************************************************************)
C9_EvalCallsBounded ==
  pc = "returned"
    => /\ 1 <= calls
       /\ calls <= Size(node)
       /\ (node.type = "Variable" /\ node.name \in DOMAIN env)
            => calls = 1 /\ result = env[node.name]

\* an application has been evaluated to an AST of more nodes than it has
C9_Witness ==
  /\ pc = "returned"
  /\ IsRedex(node)
  /\ Size(result) > Size(node)

(***************************************************************************)
(* C10: two ASTs that render the same are the same AST, so the loop of     *)
(* interpret exits exactly when eval({}) returns the AST it was called on. *)
(***************************************************************************)
RenderedTerms == {<<Str(t), t>> : t \in Terms}

TermsRenderDistinct ==
  Cardinality({Str(t) : t \in Terms}) = Cardinality(Terms)

C10_RenderingInjective ==
  /\ TermsRenderDistinct
  /\ (pc \in {"loop", "done"} /\ ~IsError(result))
       => /\ LoopCondition(result) <=> Eval(result, EmptyEnv) # result
          /\ pc = "done" => Eval(result, EmptyEnv) = result
          /\ \A rt \in RenderedTerms : rt[1] = Str(result) => rt[2] = result

\* the loop has compared the rendering of an application whose argument is an
\* application with that of what eval returns for it, and exits
C10_Witness ==
  /\ pc = "done"
  /\ result.type = "FunctionApplication"
  /\ result.right_expression.type = "FunctionApplication"
  /\ Eval(result, EmptyEnv) = result

====
